---- MODULE Spec2Model ----
(***************************************************************************)
(* Verification model of jsdom's window runtime surface:                   *)
(*   - the virtual console (VirtualConsole, an EventEmitter)               *)
(*   - the Window constructor, its timers, close() and the deferred load   *)
(*     task                                                                *)
(*   - the XMLHttpRequest wrapper created by window.XMLHttpRequest         *)
(* The specifications share one state: SpecConsole (virtual console),      *)
(* SpecTimers (timer registry), SpecClose (close() on frame trees),        *)
(* SpecWindow (construction and the deferred task), SpecXhr (open() of     *)
(* requests), SpecSend (send(), cookies and response notifications) and    *)
(* SpecStyle (getComputedStyle).                                           *)
(***************************************************************************)
EXTENDS Integers, Sequences, FiniteSets, TLC

VARIABLES
    \* ---- VirtualConsole (an EventEmitter)
    listeners,      \* event name -> sequence of registered listeners (EventEmitter table)
    attachments,    \* sequence of sendTo calls made so far: sink, options, arguments object
    calls,          \* sink method calls made by the last emit, in call order
    \* ---- Window
    constructed,    \* window -> "none" | "ok": whether new Window(options) has returned it
    virtualConsole, \* window -> its _virtualConsole
    document,       \* window -> whether _document is still attached
    docLoadListener,\* window -> the document holds the load listener of the deferred task
    events,         \* window -> the window's _events table holds a script's listener
    tickPending,    \* window -> the process.nextTick task of the constructor has not run yet
    frames,         \* window -> its child frame windows window[0..length-1]
    timers,         \* window -> __timers, a sequence of [handle, stopFn]
    host,           \* handle -> the host scheduler's view of the timer
    \* ---- XMLHttpRequest wrapper
    lastUrl,        \* request -> the closure variable lastUrl of its wrapper
    underlyingOpen, \* request -> the URL the last xhr._open call received
    lastOpen,       \* request -> the url and document URL of its most recent open()
    xhrReadyState,  \* request -> xhr.readyState of the underlying request
    sendFlag,       \* request -> the underlying request has been sent and is not finished
    disableHeaderCheck, \* request -> header-name validation is switched off
    observers,      \* request -> number of registered setReceivedCookies listeners
    jar,            \* cookie scope -> cookies of window.document._cookieJar, oldest first
    \* ---- getComputedStyle
    styleSheets,    \* the default style sheet and document.styleSheets
    computed,       \* the declaration the last getComputedStyle call returned
    \* ---- effects of the last operation, in order
    cancelled,      \* stored cancel functions invoked: [w, stopFn, handle]
    tornDown,       \* windows whose teardown steps ran
    docClosed,      \* windows whose document.close() ran
    loadDispatched, \* windows on which a load event was dispatched
    \* ---- shared bookkeeping
    raised,         \* the exception the last operation raised, "none" when it returned
    lastOp          \* the last operation and its inputs

consoleVars == <<listeners, attachments, calls>>

windowVars == <<constructed, virtualConsole, document, docLoadListener, events,
                tickPending, frames>>

timerVars == <<timers, host>>

xhrVars == <<lastUrl, underlyingOpen, lastOpen, xhrReadyState, sendFlag,
             disableHeaderCheck, observers, jar>>

styleVars == <<styleSheets, computed>>

effectVars == <<cancelled, tornDown, docClosed, loadDispatched>>

vars == <<listeners, attachments, calls,
          constructed, virtualConsole, document, docLoadListener, events,
          tickPending, frames, timers, host,
          lastUrl, underlyingOpen, lastOpen, xhrReadyState, sendFlag,
          disableHeaderCheck, observers, jar, styleSheets, computed,
          cancelled, tornDown, docClosed, loadDispatched,
          raised, lastOp>>

----------------------------------------------------------------------------
(* Bounds *)

MaxAttach == 2      \* sendTo calls per router
MaxHandles == 3     \* timer handles the host scheduler hands out
MaxCloseTimers == 1 \* timers scheduled on a frame tree before it is closed
MaxWindows == 2     \* windows constructed in SpecWindow
MaxObservers == 2   \* send() calls of one request whose observer is still registered

----------------------------------------------------------------------------
(* VirtualConsole                                                          *)

\* The sink objects handed to sendTo.  Each has own enumerable keys (in
\* Object.keys order); "level" is a data property, the others are functions.
Sinks == {"console", "logger", "reporter"}

SinkKeys(s) ==
    CASE s = "console"  -> <<"log", "error">>
      [] s = "logger"   -> <<"log">>
      [] s = "reporter" -> <<"level", "error", "jsdomError">>

\* typeof anyConsole[method] === "function"
IsFunction(s, k) ==
    /\ \E i \in 1..Len(SinkKeys(s)) : SinkKeys(s)[i] = k
    /\ k # "level"

\* window.console exposes these (three of the fifteen wrapped methods).
ConsoleMethods == {"log", "error", "warn"}

Events == ConsoleMethods \cup {"jsdomError", "level"}

\* Values passed as event arguments.  "e1" is an Error object: it has a stack
\* and a detail; the others are plain strings (their .stack is undefined).
ArgValues == {"a", "e1"}

\* The argument lists of an emit: none, one value, two values in either order.
ArgLists == {<<>>, <<"a">>, <<"e1">>, <<"a", "e1">>, <<"e1", "a">>}

Stack(v) == IF v = "e1" THEN "e1.stack" ELSE "undefined"

Detail(v) == IF v = "e1" THEN "e1.detail" ELSE "undefined"

\* The options argument of sendTo: not passed, {}, or {omitJsdomErrors: true}.
OptionForms == {"notPassed", "{}", "{omitJsdomErrors:true}"}

\* The arguments object of one sendTo(anyConsole, options) call.
SendToArguments(sink, opts) ==
    IF opts = "notPassed" THEN <<sink>> ELSE <<sink, opts>>

\* constructor: this.on("error", () => { })
NoopListener == [kind |-> "noop", att |-> 0, method |-> ""]

VirtualConsoleConstructorNoErrorListener ==
    [ev \in Events |-> <<>>]

VirtualConsoleConstructor ==
    [ev \in Events |-> IF ev = "error" THEN <<NoopListener>> ELSE <<>>]

\* The listeners one sendTo call registers for event ev, in registration
\* order: the forwarding listener of the loop over Object.keys, then the
\* jsdomError forwarder.
MethodListener(att, sink, ev) ==
    IF IsFunction(sink, ev)
    THEN <<[kind |-> "method", att |-> att, method |-> ev]>>
    ELSE <<>>

JsdomErrorListenerIgnoringOptions(att, opts, ev) ==
    IF ev = "jsdomError"
    THEN <<[kind |-> "jsdomError", att |-> att, method |-> "error"]>>
    ELSE <<>>

JsdomErrorListener(att, opts, ev) ==
    IF ev = "jsdomError" /\ opts # "{omitJsdomErrors:true}"
    THEN <<[kind |-> "jsdomError", att |-> att, method |-> "error"]>>
    ELSE <<>>

sendTo(sink, opts) ==
    /\ Len(attachments) < MaxAttach
    /\ LET att == Len(attachments) + 1 IN
       /\ listeners' = [ev \in Events |->
              listeners[ev] \o MethodListener(att, sink, ev)
                            \o JsdomErrorListener(att, opts, ev)]
       /\ attachments' = Append(attachments,
              [sink |-> sink, opts |-> opts, arguments |-> SendToArguments(sink, opts)])
    /\ calls' = <<>>
    /\ raised' = "none"
    /\ lastOp' = [op |-> "sendTo", event |-> "", args |-> <<>>]
    /\ UNCHANGED <<styleVars, xhrVars, windowVars, timerVars, effectVars>>

\* What the arrow function of sendTo passes on: an arrow function has no
\* arguments object of its own, so `arguments` is that of the enclosing
\* sendTo call, not the emitted argument list.
ForwardedArguments(att, emitted) == attachments[att].arguments

\* One listener invoked with the emitted arguments: the sink calls it makes
\* and the exception it raises.
InvokeListener(l, emitted) ==
    CASE l.kind = "noop" ->
           [calls |-> <<>>, raised |-> "none"]
      [] l.kind = "method" ->
           [calls |-> <<[att |-> l.att, sink |-> attachments[l.att].sink,
                         method |-> l.method,
                         args |-> ForwardedArguments(l.att, emitted)]>>,
            raised |-> "none"]
      [] l.kind = "jsdomError" ->
           IF emitted = <<>>
           THEN [calls |-> <<>>, raised |-> "TypeError"]   \* e is undefined: e.stack
           ELSE IF ~IsFunction(attachments[l.att].sink, "error")
           THEN [calls |-> <<>>, raised |-> "TypeError"]   \* anyConsole.error is not a function
           ELSE [calls |-> <<[att |-> l.att, sink |-> attachments[l.att].sink,
                              method |-> "error",
                              args |-> <<Stack(emitted[1]), Detail(emitted[1])>>]>>,
                 raised |-> "none"]

\* EventEmitter.emit runs the listeners of the event in registration order;
\* an exception of a listener propagates and ends the emit.
RECURSIVE RunListeners(_, _)
RunListeners(ls, emitted) ==
    IF ls = <<>> THEN [calls |-> <<>>, raised |-> "none"]
    ELSE LET first == InvokeListener(Head(ls), emitted) IN
         IF first.raised # "none" THEN first
         ELSE LET rest == RunListeners(Tail(ls), emitted) IN
              [calls |-> first.calls \o rest.calls, raised |-> rest.raised]

\* EventEmitter.emit: an "error" event without any listener is thrown.
EmitResult(event, emitted) ==
    IF event = "error" /\ listeners[event] = <<>>
    THEN [calls |-> <<>>, raised |-> "UnhandledError"]
    ELSE RunListeners(listeners[event], emitted)

emit(event, emitted) ==
    /\ calls' = EmitResult(event, emitted).calls
    /\ raised' = EmitResult(event, emitted).raised
    /\ UNCHANGED <<styleVars, xhrVars, listeners, attachments, windowVars, timerVars, effectVars>>

\* router.emit(event, ...args), as jsdom's internals do for jsdomError.
Emit(event, emitted) ==
    /\ emit(event, emitted)
    /\ lastOp' = [op |-> "emit", event |-> event, args |-> emitted]

\* window.console.<method>(...args)
wrapConsoleMethod(method, args) ==
    /\ emit(method, args)
    /\ lastOp' = [op |-> "console", event |-> method, args |-> args]

----------------------------------------------------------------------------
(* Window: timers                                                          *)

Windows == {"w1", "w2", "w3"}

Handles == 1..MaxHandles

\* The host scheduler (setTimeout/setInterval/clearTimeout/clearInterval of
\* the platform).  status: "unused", "timeout" or "interval" while pending,
\* "fired" for a one-shot timer that ran, "cleared" once cancelled.  owner is
\* the window whose startTimer obtained the handle; stopped records that a
\* stopAllTimers of the owner ran after the handle was issued.
UnusedHandle == [status |-> "unused", owner |-> "", stopped |-> FALSE]

Pending(hs, h) == hs[h].status \in {"timeout", "interval"}

NoEffects ==
    /\ cancelled' = <<>>
    /\ tornDown' = <<>>
    /\ docClosed' = <<>>
    /\ loadDispatched' = <<>>

\* startFn(callback, ms) of the host: the next handle, now pending.
StartFnKind(startFn) == IF startFn = "setTimeout" THEN "timeout" ELSE "interval"

NextHandle == CHOOSE h \in Handles :
                 /\ host[h].status = "unused"
                 /\ \A g \in Handles : g < h => host[g].status # "unused"

\* stopFn.call(window, id) of the host: clearTimeout and clearInterval both
\* cancel a pending timer of either kind and ignore any other handle.
HostClear(hs, h) ==
    IF Pending(hs, h) THEN [hs EXCEPT ![h].status = "cleared"] ELSE hs

startTimer(w, startFn, stopFn) ==
    /\ constructed[w] = "ok"
    /\ \E h \in Handles : host[h].status = "unused"
    /\ host' = [host EXCEPT ![NextHandle] =
                   [status |-> StartFnKind(startFn), owner |-> w, stopped |-> FALSE]]
    /\ timers' = [timers EXCEPT ![w] =
                   Append(@, [handle |-> NextHandle, stopFn |-> stopFn])]
    /\ NoEffects
    /\ raised' = "none"
    /\ lastOp' = [op |-> startFn, w |-> w, id |-> NextHandle, before |-> timers]
    /\ UNCHANGED <<styleVars, xhrVars, consoleVars, windowVars>>

setTimeout(w) == startTimer(w, "setTimeout", "clearTimeout")

setInterval(w) == startTimer(w, "setInterval", "clearInterval")

\* Array.prototype.splice(i, 1)
Splice(seq, i) == SubSeq(seq, 1, i - 1) \o SubSeq(seq, i + 1, Len(seq))

\* The index stopTimer's loop stops at: the first record with that handle,
\* 0 when the loop ends without a match.
FindTimer(reg, id) ==
    IF \E i \in 1..Len(reg) : reg[i].handle = id
    THEN CHOOSE i \in 1..Len(reg) :
            /\ reg[i].handle = id
            /\ \A j \in 1..(i - 1) : reg[j].handle # id
    ELSE 0

\* stopTimer(window, id) on registry reg and host state hs.  id 0 stands
\* for undefined.
StopTimerDroppingRecordOnly(w, reg, hs, id) ==
    LET i == FindTimer(reg, id) IN
    IF id = 0 \/ i = 0
    THEN [timers |-> reg, host |-> hs, cancelled |-> <<>>]
    ELSE [timers |-> Splice(reg, i), host |-> hs, cancelled |-> <<>>]

StopTimerRemovingLast(w, reg, hs, id) ==
    LET i == FindTimer(reg, id) IN
    IF id = 0 \/ i = 0
    THEN [timers |-> reg, host |-> hs, cancelled |-> <<>>]
    ELSE [timers |-> Splice(reg, Len(reg)),
          host |-> HostClear(hs, reg[i].handle),
          cancelled |-> <<[w |-> w, stopFn |-> reg[i].stopFn, handle |-> id]>>]

StopTimerResult(w, reg, hs, id) ==
    LET i == FindTimer(reg, id) IN
    IF id = 0 \/ i = 0
    THEN [timers |-> reg, host |-> hs, cancelled |-> <<>>]
    ELSE [timers |-> Splice(reg, i),
          host |-> HostClear(hs, reg[i].handle),
          cancelled |-> <<[w |-> w, stopFn |-> reg[i].stopFn, handle |-> id]>>]

\* window.clearTimeout and window.clearInterval are both stopTimer.bind(this, window).
stopTimer(w, id) ==
    /\ constructed[w] = "ok"
    /\ LET r == StopTimerResult(w, timers[w], host, id) IN
       /\ timers' = [timers EXCEPT ![w] = r.timers]
       /\ host' = r.host
       /\ cancelled' = r.cancelled
    /\ tornDown' = <<>>
    /\ docClosed' = <<>>
    /\ loadDispatched' = <<>>
    /\ raised' = "none"
    /\ lastOp' = [op |-> "stopTimer", w |-> w, id |-> id, before |-> timers]
    /\ UNCHANGED <<styleVars, xhrVars, consoleVars, windowVars>>

\* The host scheduler runs the callback of a pending timer.  A one-shot
\* timer is then done; an interval stays pending.  Window.js is not told.
Fire(h) ==
    /\ Pending(host, h)
    /\ host' = [host EXCEPT ![h].status =
                   IF @ = "timeout" THEN "fired" ELSE @]
    /\ NoEffects
    /\ raised' = "none"
    /\ lastOp' = [op |-> "fire", w |-> host[h].owner, id |-> h, before |-> timers]
    /\ UNCHANGED <<styleVars, xhrVars, consoleVars, windowVars, timers>>

\* for (const t of window.__timers) t[1].call(window, t[0])
RECURSIVE ClearAll(_, _)
ClearAll(hs, reg) ==
    IF reg = <<>> THEN hs
    ELSE ClearAll(HostClear(hs, Head(reg).handle), Tail(reg))

MarkStopped(hs, w) ==
    [h \in Handles |-> IF hs[h].owner = w THEN [hs[h] EXCEPT !.stopped = TRUE]
                       ELSE hs[h]]

\* stopAllTimers(window) on registry reg and host state hs.
StopAllForgettingToCancel(w, reg, hs) ==
    [timers |-> <<>>, host |-> MarkStopped(hs, w), cancelled |-> <<>>]

StopAllResult(w, reg, hs) ==
    [timers |-> <<>>,
     host |-> MarkStopped(ClearAll(hs, reg), w),
     cancelled |-> [k \in 1..Len(reg) |->
                      [w |-> w, stopFn |-> reg[k].stopFn, handle |-> reg[k].handle]]]

\* window.__stopAllTimers()
stopAllTimers(w) ==
    /\ constructed[w] = "ok"
    /\ LET r == StopAllResult(w, timers[w], host) IN
       /\ timers' = [timers EXCEPT ![w] = r.timers]
       /\ host' = r.host
       /\ cancelled' = r.cancelled
    /\ tornDown' = <<>>
    /\ docClosed' = <<>>
    /\ loadDispatched' = <<>>
    /\ raised' = "none"
    /\ lastOp' = [op |-> "stopAllTimers", w |-> w, id |-> 0, before |-> timers]
    /\ UNCHANGED <<styleVars, xhrVars, consoleVars, windowVars>>

----------------------------------------------------------------------------
(* Window: close                                                           *)

\* The part of the state close() works on.
CloseState ==
    [events |-> events, document |-> document, docLoadListener |-> docLoadListener,
     timers |-> timers, host |-> host,
     cancelled |-> <<>>, tornDown |-> <<>>, docClosed |-> <<>>,
     loadDispatched |-> <<>>, raised |-> "none"]

\* document.close() fires a load event on the document; the listener of the
\* deferred task, if still registered, re-dispatches it on the window.
\* The routine is reached through this._document: on a window whose document
\* reference is gone the call raises.
DocumentClose(S, w) ==
    IF ~S.document[w] THEN [S EXCEPT !.raised = "TypeError"]
    ELSE [S EXCEPT !.docClosed = Append(@, w),
                   !.loadDispatched = IF S.docLoadListener[w] THEN Append(@, w) ELSE @]

\* this._document._listeners = Object.create(null); this._document.close();
ClearListenersAndCloseAfterwards(S, w) ==
    [DocumentClose(S, w) EXCEPT !.docLoadListener[w] = FALSE]

ClearListenersAndClose(S, w) ==
    DocumentClose([S EXCEPT !.docLoadListener[w] = FALSE], w)

\* if (this._document) { body.innerHTML = ""; _listeners = {}; close(); delete }
DetachDocumentUnguarded(S, w) ==
    IF S.document[w]
    THEN [ClearListenersAndClose(S, w) EXCEPT !.document[w] = FALSE]
    ELSE [S EXCEPT !.raised = "TypeError"]

DetachDocument(S, w) ==
    IF S.document[w]
    THEN [ClearListenersAndClose(S, w) EXCEPT !.document[w] = FALSE]
    ELSE S

\* stopAllTimers(currentWindow) at the end of close()
StopAllIn(S, w) ==
    LET r == StopAllResult(w, S.timers[w], S.host) IN
    [S EXCEPT !.timers[w] = r.timers, !.host = r.host,
              !.cancelled = @ \o r.cancelled]

\* The steps of close() after the recursion: reset _events, detach the
\* document, stop all timers.
Teardown(S, w) ==
    IF S.raised # "none" THEN S
    ELSE LET a == [S EXCEPT !.events[w] = FALSE, !.tornDown = Append(@, w)]
             b == DetachDocument(a, w)
         IN  IF b.raised # "none" THEN b ELSE StopAllIn(b, w)

RECURSIVE windowCleaner(_, _, _), CleanFrames(_, _, _, _), close(_, _)

\* for (let i = 0; i < windowToClean.length; i++) windowCleaner(windowToClean[i])
CleanFrames(S, currentWindow, windowToClean, i) ==
    IF i > Len(frames[windowToClean]) THEN S
    ELSE CleanFrames(windowCleaner(S, currentWindow, frames[windowToClean][i]),
                     currentWindow, windowToClean, i + 1)

windowCleanerSkippingFirstFrame(S, currentWindow, windowToClean) ==
    LET afterFrames == CleanFrames(S, currentWindow, windowToClean, 2) IN
    IF windowToClean # currentWindow
    THEN close(afterFrames, windowToClean)
    ELSE afterFrames

windowCleaner(S, currentWindow, windowToClean) ==
    LET afterFrames == CleanFrames(S, currentWindow, windowToClean, 1) IN
    IF windowToClean # currentWindow
    THEN close(afterFrames, windowToClean)
    ELSE afterFrames

\* this.close = function () { windowCleaner(this); ...teardown of this... }
close(S, this) == Teardown(windowCleaner(S, this, this), this)

\* window.close()
Close(w) ==
    /\ constructed[w] = "ok"
    /\ LET S == close(CloseState, w) IN
       /\ events' = S.events
       /\ document' = S.document
       /\ docLoadListener' = S.docLoadListener
       /\ timers' = S.timers
       /\ host' = S.host
       /\ cancelled' = S.cancelled
       /\ tornDown' = S.tornDown
       /\ docClosed' = S.docClosed
       /\ loadDispatched' = S.loadDispatched
       /\ raised' = S.raised
    /\ lastOp' = [op |-> "close", w |-> w, hadDocument |-> document[w],
                  hadLoadListener |-> docLoadListener[w], before |-> timers]
    /\ UNCHANGED <<styleVars, xhrVars, consoleVars, constructed, virtualConsole, tickPending, frames>>

----------------------------------------------------------------------------
(* Window: construction and the deferred load task                         *)

\* Values of options.virtualConsole.  "absent": the option is not given;
\* null is falsy; nodeConsole (the host's console object) is truthy
\* but no VirtualConsole; vc1 is a VirtualConsole instance.
VirtualConsoleOptions == {"absent", "null", "nodeConsole", "vc1"}

Truthy(v) == v \in {"nodeConsole", "vc1"}

InstanceOfVirtualConsole(v) == v = "vc1"

\* The constructor's choice of this._virtualConsole, "TypeError" when it throws.
SelectVirtualConsoleUnchecked(v) ==
    IF Truthy(v) THEN v ELSE "new VirtualConsole"

SelectVirtualConsole(v) ==
    IF Truthy(v)
    THEN IF InstanceOfVirtualConsole(v) THEN v ELSE "TypeError"
    ELSE "new VirtualConsole"

\* new Window(options): the fields the constructor sets, and the deferred
\* task it schedules last.  A throw leaves no window behind.
Window(w, v) ==
    /\ constructed[w] = "none"
    /\ IF SelectVirtualConsole(v) = "TypeError"
       THEN /\ raised' = "TypeError"
            /\ UNCHANGED <<constructed, virtualConsole, document, tickPending>>
       ELSE /\ raised' = "none"
            /\ constructed' = [constructed EXCEPT ![w] = "ok"]
            /\ virtualConsole' = [virtualConsole EXCEPT ![w] = SelectVirtualConsole(v)]
            /\ document' = [document EXCEPT ![w] = TRUE]
            /\ tickPending' = [tickPending EXCEPT ![w] = TRUE]
    /\ NoEffects
    /\ UNCHANGED <<styleVars, xhrVars, consoleVars, docLoadListener, events, timers, host>>

\* A top-level window: new Window({virtualConsole: v, ...})
Construct(w, v) ==
    /\ Window(w, v)
    /\ lastOp' = [op |-> "construct", w |-> w, option |-> v, parent |-> ""]
    /\ UNCHANGED frames

\* A frame element inserted into the document of window p creates the child
\* window w (no virtualConsole option) and makes it p[p.length], p.length++.
FrameWindow(p, w) ==
    /\ constructed[p] = "ok" /\ document[p]
    /\ Window(w, "absent")
    /\ frames' = [frames EXCEPT ![p] = Append(@, w)]
    /\ lastOp' = [op |-> "construct", w |-> w, option |-> "absent", parent |-> p]

\* window.addEventListener(type, listener) by a script
AddEventListener(w) ==
    /\ constructed[w] = "ok"
    /\ ~events[w]
    /\ events' = [events EXCEPT ![w] = TRUE]
    /\ NoEffects
    /\ raised' = "none"
    /\ lastOp' = [op |-> "addEventListener", w |-> w]
    /\ UNCHANGED <<styleVars, xhrVars, consoleVars, constructed, virtualConsole, document,
                   docLoadListener, tickPending, frames, timers, host>>

ReadyStates == {"loading", "complete"}

\* What the deferred task does: "return", "dispatch" or "listen".
TickStepUnguarded(hasDocument, readyState) ==
    IF readyState = "complete" THEN "dispatch" ELSE "listen"

TickStep(hasDocument, readyState) ==
    IF ~hasDocument THEN "return"
    ELSE IF readyState = "complete" THEN "dispatch" ELSE "listen"

\* The process.nextTick callback of the constructor, run by the host with
\* the document's readyState at that moment.
Tick(w, readyState) ==
    /\ tickPending[w]
    /\ tickPending' = [tickPending EXCEPT ![w] = FALSE]
    /\ LET step == TickStep(document[w], readyState) IN
       /\ loadDispatched' = IF step = "dispatch" THEN <<w>> ELSE <<>>
       /\ docLoadListener' = IF step = "listen"
                             THEN [docLoadListener EXCEPT ![w] = TRUE]
                             ELSE docLoadListener
    /\ cancelled' = <<>>
    /\ tornDown' = <<>>
    /\ docClosed' = <<>>
    /\ raised' = "none"
    /\ lastOp' = [op |-> "tick", w |-> w, hadDocument |-> document[w],
                  readyState |-> readyState]
    /\ UNCHANGED <<styleVars, xhrVars, consoleVars, constructed, virtualConsole, document, events,
                   frames, timers, host>>

\* The document of an open window fires its load event; the listener the
\* deferred task registered re-dispatches it on the window.
DocumentLoad(w) ==
    /\ constructed[w] = "ok" /\ document[w]
    /\ loadDispatched' = IF docLoadListener[w] THEN <<w>> ELSE <<>>
    /\ cancelled' = <<>>
    /\ tornDown' = <<>>
    /\ docClosed' = <<>>
    /\ raised' = "none"
    /\ lastOp' = [op |-> "documentLoad", w |-> w]
    /\ UNCHANGED <<styleVars, xhrVars, consoleVars, windowVars, timers, host>>

----------------------------------------------------------------------------
(* window.XMLHttpRequest: the wrapper around the underlying request        *)

Requests == {"x1", "x2"}

\* URLs are sequences of characters.
Letters ==
    {"a", "b", "c", "d", "e", "f", "g", "h", "i", "j", "k", "l", "m",
     "n", "o", "p", "q", "r", "s", "t", "u", "v", "w", "x", "y", "z",
     "A", "B", "C", "D", "E", "F", "G", "H", "I", "J", "K", "L", "M",
     "N", "O", "P", "Q", "R", "S", "T", "U", "V", "W", "X", "Y", "Z"}

FileSlashes == <<"f", "i", "l", "e", ":", "/", "/", "/">>

\* The url argument of open(): file:///C:/t, file:///t, file://C:/t,
\* file:///1:/t, file:///CD:/t, http://h/t, http://h/file:///C:/t and the
\* relative reference t.
OpenUrls ==
    { FileSlashes \o <<"C", ":", "/", "t">>,
      FileSlashes \o <<"t">>,
      <<"f", "i", "l", "e", ":", "/", "/", "C", ":", "/", "t">>,
      FileSlashes \o <<"1", ":", "/", "t">>,
      FileSlashes \o <<"C", "D", ":", "/", "t">>,
      <<"h", "t", "t", "p", ":", "/", "/", "h", "/", "t">>,
      <<"h", "t", "t", "p", ":", "/", "/", "h", "/">> \o FileSlashes \o <<"C", ":", "/", "t">>,
      <<"t">> }

\* window.document.URL at the time of a call: file:///c:/d/i or http://h/i.
DocumentUrls ==
    { FileSlashes \o <<"c", ":", "/", "d", "/", "i">>,
      <<"h", "t", "t", "p", ":", "/", "/", "h", "/", "i">> }

OpenMethods == {"GET", "TRACE"}

HasScheme(url) ==
    \E i \in 2..Len(url) :
        /\ url[i] = ":"
        /\ \A j \in 1..(i - 1) : url[j] \in Letters

LastSlash(url) ==
    CHOOSE i \in 1..Len(url) :
        /\ url[i] = "/"
        /\ \A j \in (i + 1)..Len(url) : url[j] # "/"

\* resolveHref(baseUrl, href) of ../utils: href itself when it is absolute,
\* else href put in place of the last path segment of the base.
resolveHref(base, href) ==
    IF HasScheme(href) THEN href
    ELSE SubSeq(base, 1, LastSlash(base)) \o href

\* url.replace(/^file:\/\/\/([a-zA-Z]:)/, "file://$1")
fixUrlForBuggyXhrNoRewrite(url) == url

fixUrlForBuggyXhr(url) ==
    IF /\ Len(url) >= 10
       /\ SubSeq(url, 1, 8) = FileSlashes
       /\ url[9] \in Letters
       /\ url[10] = ":"
    THEN SubSeq(url, 1, 7) \o SubSeq(url, 9, Len(url))
    ELSE url

\* xhr._open(method, url, ...) of the underlying request: a forbidden
\* method makes it throw.
UnderlyingOpenRaises(method) ==
    IF method = "TRACE" THEN "SecurityError" ELSE "none"

\* xhr.open(method, url, async, user, password), called while the document
\* of the window has the URL base.
open(x, method, url, base) ==
    /\ lastUrl' = [lastUrl EXCEPT ![x] = fixUrlForBuggyXhr(resolveHref(base, url))]
    /\ underlyingOpen' = [underlyingOpen EXCEPT ![x] = lastUrl'[x]]
    /\ raised' = UnderlyingOpenRaises(method)
    /\ IF raised' = "none"
       THEN /\ xhrReadyState' = [xhrReadyState EXCEPT ![x] = "OPENED"]
            /\ sendFlag' = [sendFlag EXCEPT ![x] = FALSE]
       ELSE UNCHANGED <<xhrReadyState, sendFlag>>
    /\ UNCHANGED <<disableHeaderCheck, observers, jar>>
    /\ lastOpen' = [lastOpen EXCEPT ![x] = [called |-> TRUE, url |-> url, base |-> base]]
    /\ lastOp' = [op |-> "open", x |-> x, method |-> method]
    /\ NoEffects
    /\ UNCHANGED <<styleVars, consoleVars, windowVars, timerVars>>

----------------------------------------------------------------------------
(* window.XMLHttpRequest: cookies of window.document._cookieJar            *)

HttpUrl == <<"h", "t", "t", "p", ":", "/", "/", "h", "/", "t">>

\* The url arguments of open() followed by send(): http://h/t and file:///C:/t.
SendUrls == {HttpUrl, FileSlashes \o <<"C", ":", "/", "t">>}

\* window.document.URL during those calls: http://h/i.
SendDocumentUrl == <<"h", "t", "t", "p", ":", "/", "/", "h", "/", "i">>

\* lastUrl.startsWith("file:")
StartsWithFile(url) ==
    Len(url) >= 5 /\ SubSeq(url, 1, 5) = SubSeq(FileSlashes, 1, 5)

\* Well-formed cookie strings name=value; any other string does not parse.
CookieStrings == {"a=1", "a=2", "b=1"}

CookieName(c) == IF c \in {"a=1", "a=2"} THEN "a" ELSE "b"

\* The jar keeps cookies per scope; the scope of a URL is its scheme, host
\* and directory.
CookieScope(url) ==
    IF \E i \in 1..Len(url) : url[i] = "/"
    THEN SubSeq(url, 1, LastSlash(url)) ELSE <<>>

CookieScopes == {CookieScope(fixUrlForBuggyXhr(u)) : u \in SendUrls}

\* cookieJar.getCookieStringSync(url, { http: true }): the cookies of the
\* URL's scope joined by "; ", here the sequence of them; "" is <<>>.
getCookieStringSync(j, url) ==
    IF CookieScope(url) \in DOMAIN j THEN j[CookieScope(url)] ELSE <<>>

\* The cookies of one scope after storing c: a cookie of the same name is
\* replaced in place, a new name is appended.
StoreCookie(list, c) ==
    IF \E k \in 1..Len(list) : CookieName(list[k]) = CookieName(c)
    THEN [k \in 1..Len(list) |->
            IF CookieName(list[k]) = CookieName(c) THEN c ELSE list[k]]
    ELSE Append(list, c)

\* cookieJar.setCookieSync(str, url, { http: true, ignoreError: true }):
\* a string that does not parse is dropped without an error.
setCookieSync(j, c, url) ==
    IF c \notin CookieStrings \/ CookieScope(url) \notin DOMAIN j THEN j
    ELSE [j EXCEPT ![CookieScope(url)] = StoreCookie(@, c)]

\* xhr.getResponseHeader("set-cookie"): null, one string or an array.
SetCookieHeaders ==
    { [kind |-> "null", value |-> "", values |-> <<>>],
      [kind |-> "string", value |-> "a=1", values |-> <<>>],
      [kind |-> "string", value |-> "a=2", values |-> <<>>],
      [kind |-> "array", value |-> "", values |-> <<"b=1", "a=1">>],
      [kind |-> "array", value |-> "", values |-> <<"bad", "a=2">>] }

\* if (receivedCookies): null and "" are falsy, an array is truthy.
HeaderPresent(h) == h.kind = "array" \/ (h.kind = "string" /\ h.value # "")

\* Array.isArray(receivedCookies) ? receivedCookies : [receivedCookies]
NormaliseHeader(h) == IF h.kind = "array" THEN h.values ELSE <<h.value>>

RECURSIVE PersistCookies(_, _, _)

\* for (const receivedCookieStr of receivedCookies) cookieJar.setCookieSync(...)
PersistFirstCookieOnly(j, cookies, url) ==
    IF cookies = <<>> THEN j ELSE setCookieSync(j, Head(cookies), url)

PersistCookies(j, cookies, url) ==
    IF cookies = <<>> THEN j
    ELSE PersistCookies(setCookieSync(j, Head(cookies), url), Tail(cookies), url)

\* One call of the readystatechange listener setReceivedCookies of a send().
\* O: the request's readyState and set-cookie header, lastUrl, the jar, the
\* setCookieSync calls made so far and the number of registered observers.
setReceivedCookies(O) ==
    IF O.readyState # "HEADERS_RECEIVED" THEN O
    ELSE LET received == IF HeaderPresent(O.header)
                         THEN NormaliseHeader(O.header) ELSE <<>>
         IN  [O EXCEPT !.jar = PersistCookies(@, received, O.url),
                       !.persisted = @ \o received,
                       !.observers = @ - 1]

RECURSIVE RunObservers(_, _)

\* dispatch of readystatechange to the n observers registered at that moment
RunObservers(O, n) ==
    IF n = 0 THEN O ELSE RunObservers(setReceivedCookies(O), n - 1)

\* The observers of request x notified in state rs with response header h.
Notify(x, rs, h) ==
    RunObservers([readyState |-> rs, header |-> h, url |-> lastUrl[x],
                  jar |-> jar, persisted |-> <<>>, observers |-> observers[x]],
                 observers[x])

----------------------------------------------------------------------------
(* window.XMLHttpRequest: send() and the notifications of the request      *)

\* Request header names: cookie and host are refused while header-name
\* validation is on.
HeaderNames == {"cookie", "host"}

NoHeaders == [n \in HeaderNames |-> <<>>]

\* The part of a request send() works on.
RequestState(x) ==
    [readyState |-> xhrReadyState[x], sendFlag |-> sendFlag[x],
     disableHeaderCheck |-> disableHeaderCheck[x], headers |-> NoHeaders,
     observers |-> observers[x], sent |-> FALSE, raised |-> "none"]

\* xhr.setRequestHeader(name, value) of the underlying request: throws on a
\* request that is not opened, refuses a forbidden name while validation is
\* on, throws on a request already sent, else stores the header.
setRequestHeader(R, name, value) ==
    IF R.readyState # "OPENED" THEN [R EXCEPT !.raised = "INVALID_STATE_ERR"]
    ELSE IF ~R.disableHeaderCheck THEN R
    ELSE IF R.sendFlag THEN [R EXCEPT !.raised = "INVALID_STATE_ERR"]
    ELSE [R EXCEPT !.headers[name] = value]

\* if (cookieStr) { setDisableHeaderCheck(true); setRequestHeader("cookie",
\* cookieStr); setDisableHeaderCheck(false); }
SetCookieHeaderNever(R, cookieStr) == R

SetCookieHeader(R, cookieStr) ==
    IF cookieStr = <<>> THEN R
    ELSE LET set == setRequestHeader([R EXCEPT !.disableHeaderCheck = TRUE],
                                     "cookie", cookieStr)
         IN  IF set.raised # "none" THEN set
             ELSE [set EXCEPT !.disableHeaderCheck = FALSE]

\* xhr._send(data) of the underlying request: throws unless the request is
\* opened and not yet sent; else the request is in flight with its headers.
UnderlyingSend(R) ==
    IF R.readyState # "OPENED" \/ R.sendFlag
    THEN [R EXCEPT !.raised = "INVALID_STATE_ERR"]
    ELSE [R EXCEPT !.sendFlag = TRUE, !.sent = TRUE]

\* xhr.send(data): cookie header from the jar, registration of the
\* observer, then the underlying send.
SendResult(x) ==
    LET withCookie == SetCookieHeader(RequestState(x),
                                      getCookieStringSync(jar, lastUrl[x]))
    IN  IF withCookie.raised # "none" THEN withCookie
        ELSE UnderlyingSend([withCookie EXCEPT !.observers = @ + 1])

send(x) ==
    /\ LET R == SendResult(x) IN
       /\ sendFlag' = [sendFlag EXCEPT ![x] = R.sendFlag]
       /\ disableHeaderCheck' = [disableHeaderCheck EXCEPT ![x] = R.disableHeaderCheck]
       /\ observers' = [observers EXCEPT ![x] = R.observers]
       /\ raised' = R.raised
       /\ lastOp' = [op |-> "send", x |-> x,
                     opened |-> xhrReadyState[x] = "OPENED" /\ ~sendFlag[x],
                     sent |-> R.sent, headers |-> R.headers]
    /\ NoEffects
    /\ UNCHANGED <<styleVars, lastUrl, underlyingOpen, lastOpen, xhrReadyState, jar,
                   consoleVars, windowVars, timerVars>>

\* The response headers of the request in flight arrive: readyState becomes
\* HEADERS_RECEIVED and readystatechange is dispatched.  Requests for file
\* URLs never get there.
HeadersReceived(x, h) ==
    /\ xhrReadyState[x] = "OPENED" /\ sendFlag[x]
    /\ ~StartsWithFile(lastUrl[x])
    /\ xhrReadyState' = [xhrReadyState EXCEPT ![x] = "HEADERS_RECEIVED"]
    /\ LET O == Notify(x, "HEADERS_RECEIVED", h) IN
       /\ jar' = O.jar
       /\ observers' = [observers EXCEPT ![x] = O.observers]
       /\ lastOp' = [op |-> "headersReceived", x |-> x, header |-> h,
                     observers |-> observers[x], persisted |-> O.persisted,
                     before |-> jar]
    /\ raised' = "none"
    /\ NoEffects
    /\ UNCHANGED <<styleVars, lastUrl, underlyingOpen, lastOpen, sendFlag, disableHeaderCheck,
                   consoleVars, windowVars, timerVars>>

\* The request in flight ends: after its headers with the body, without
\* them when a file was read or the network failed.  readystatechange is
\* dispatched with readyState DONE.
Finish(x) ==
    /\ sendFlag[x]
    /\ xhrReadyState[x] \in {"OPENED", "HEADERS_RECEIVED"}
    /\ xhrReadyState' = [xhrReadyState EXCEPT ![x] = "DONE"]
    /\ sendFlag' = [sendFlag EXCEPT ![x] = FALSE]
    /\ LET O == Notify(x, "DONE", [kind |-> "null", value |-> "", values |-> <<>>]) IN
       /\ jar' = O.jar
       /\ observers' = [observers EXCEPT ![x] = O.observers]
       /\ lastOp' = [op |-> "finish", x |-> x, persisted |-> O.persisted]
    /\ raised' = "none"
    /\ NoEffects
    /\ UNCHANGED <<styleVars, lastUrl, underlyingOpen, lastOpen, disableHeaderCheck,
                   consoleVars, windowVars, timerVars>>

\* xhr.abort() of the underlying request; the wrapper leaves it as it is.
abort(x) ==
    /\ xhrReadyState' = [xhrReadyState EXCEPT ![x] = "UNSENT"]
    /\ sendFlag' = [sendFlag EXCEPT ![x] = FALSE]
    /\ LET O == Notify(x, "DONE", [kind |-> "null", value |-> "", values |-> <<>>]) IN
       /\ jar' = O.jar
       /\ observers' = [observers EXCEPT ![x] = O.observers]
       /\ lastOp' = [op |-> "abort", x |-> x, persisted |-> O.persisted]
    /\ raised' = "none"
    /\ NoEffects
    /\ UNCHANGED <<styleVars, lastUrl, underlyingOpen, lastOpen, disableHeaderCheck,
                   consoleVars, windowVars, timerVars>>

\* xhr.setRequestHeader("host", value) called by a script.
ScriptSetRequestHeader(x) ==
    /\ LET R == setRequestHeader(RequestState(x), "host", <<"v">>) IN
       /\ raised' = R.raised
       /\ lastOp' = [op |-> "setRequestHeader", x |-> x,
                     accepted |-> R.headers["host"] # <<>>]
    /\ NoEffects
    /\ UNCHANGED <<styleVars, xhrVars, consoleVars, windowVars, timerVars>>

\* xhr._getAllResponseHeaders() of the underlying request: "" before the
\* response headers are there, else the header lines.
UnderlyingAllResponseHeaders(rs) ==
    IF rs \in {"UNSENT", "OPENED"} THEN "" ELSE "headers"

\* lastUrl.startsWith("file:") ? null : xhr._getAllResponseHeaders()
AllResponseHeadersForThreeSlashes(url, rs) ==
    IF Len(url) >= 8 /\ SubSeq(url, 1, 8) = FileSlashes THEN "null"
    ELSE UnderlyingAllResponseHeaders(rs)

AllResponseHeaders(url, rs) ==
    IF StartsWithFile(url) THEN "null"
    ELSE UnderlyingAllResponseHeaders(rs)

\* xhr.getAllResponseHeaders()
getAllResponseHeaders(x) ==
    /\ lastOp' = [op |-> "getAllResponseHeaders", x |-> x,
                  result |-> AllResponseHeaders(lastUrl[x], xhrReadyState[x])]
    /\ raised' = "none"
    /\ NoEffects
    /\ UNCHANGED <<styleVars, xhrVars, consoleVars, windowVars, timerVars>>

----------------------------------------------------------------------------
(* Window: getComputedStyle                                                *)

\* Selector texts are sequences of characters: d and p are the type
\* selectors of the elements d and p, d't' is d with the attribute value t
\* (the value may be a comma), ! is a character no selector may contain.
SelectorTexts ==
    { <<"d">>, <<"p">>,
      <<"d", ",", "p">>,
      <<"!", ",", "d">>,
      <<"p", ",", "!">>,
      <<"d", "'", ",", "'">>,
      <<"p", ",", ",", "d">> }

\* One alternative of (?:[^,"']|"[^"]*"|'[^']*') at position i of t: its
\* length, 0 when none matches there.
UnitLen(t, i) ==
    IF t[i] = "," THEN 0
    ELSE IF t[i] = "'"
    THEN IF \E j \in (i + 1)..Len(t) : t[j] = "'"
         THEN (CHOOSE j \in (i + 1)..Len(t) :
                  t[j] = "'" /\ \A k \in (i + 1)..(j - 1) : t[k] # "'") - i + 1
         ELSE 0
    ELSE 1

RECURSIVE MatchLen(_, _), SplitFrom(_, _, _)

\* Length of the longest match of cssSelectorSplitRE starting at position i.
MatchLen(t, i) ==
    IF i > Len(t) THEN 0
    ELSE LET u == UnitLen(t, i) IN
         IF u = 0 THEN 0 ELSE u + MatchLen(t, i + u)

SplitFrom(t, i, pending) ==
    IF i > Len(t) THEN <<pending>>
    ELSE LET m == MatchLen(t, i) IN
         IF m = 0 THEN SplitFrom(t, i + 1, Append(pending, t[i]))
         ELSE <<pending, SubSeq(t, i, i + m - 1)>> \o SplitFrom(t, i + m, <<>>)

\* rule.selectorText.split(cssSelectorSplitRE): the text between the matches
\* and the matches themselves, alternating.
split(t) == SplitFrom(t, 1, <<>>)

\* el.matches(selector) of the selector engine: "true", "false", or
\* "raise" for a selector it cannot parse.
matches(el, selector) ==
    IF selector = <<>> \/ selector[1] \notin {"d", "p"} THEN "raise"
    ELSE IF Len(selector) = 1
    THEN IF el.tag = selector[1] THEN "true" ELSE "false"
    ELSE IF Len(selector) = 4 /\ selector[2] = "'" /\ selector[4] = "'"
    THEN IF el.tag = selector[1] /\ el.title = selector[3] THEN "true" ELSE "false"
    ELSE "raise"

\* try { return el.matches(selector); } catch (e) { return false; }
matchesAndThrows(el, selector) == matches(el, selector)

matchesDontThrow(el, selector) ==
    IF matches(el, selector) = "raise" THEN "false" ELSE matches(el, selector)

Properties == {"color", "width"}

Unset == [value |-> "", priority |-> ""]

\* cs.setProperty(property, value, priority)
setProperty(cs, d) ==
    [cs EXCEPT ![d.property] = [value |-> d.value, priority |-> d.priority]]

RECURSIVE SetProperties(_, _)

\* forEach.call(style, property => cs.setProperty(property, ...))
SetProperties(cs, style) ==
    IF style = <<>> THEN cs
    ELSE SetProperties(setProperty(cs, Head(style)), Tail(style))

RECURSIVE ForSelectors(_, _, _, _, _)

\* for (const selectorText of selectors) { if (... && !matched &&
\* matchesDontThrow(node, selectorText)) { matched = true; ... } }
ForSelectors(C, node, rule, selectors, matched) ==
    IF selectors = <<>> \/ C.raised # "none" THEN C
    ELSE LET selectorText == Head(selectors)
             tested == selectorText # <<>> /\ selectorText # <<",">> /\ ~matched
             m == IF tested THEN matchesDontThrow(node, selectorText) ELSE "false"
         IN  IF m = "raise" THEN [C EXCEPT !.raised = "SyntaxError"]
             ELSE IF m = "true"
             THEN ForSelectors([C EXCEPT !.cs = SetProperties(@, rule.style)],
                               node, rule, Tail(selectors), TRUE)
             ELSE ForSelectors(C, node, rule, Tail(selectors), matched)

setPropertiesFromRule(C, node, rule) ==
    IF rule.selectorText = <<>> THEN C
    ELSE ForSelectors(C, node, rule, split(rule.selectorText), FALSE)

RECURSIVE ForEachNestedRule(_, _, _), ForEachRule(_, _, _)

\* forEach.call(rule.cssRules, setPropertiesFromRule)
ForEachNestedRule(C, node, rules) ==
    IF rules = <<>> \/ C.raised # "none" THEN C
    ELSE ForEachNestedRule(setPropertiesFromRule(C, node, Head(rules)), node, Tail(rules))

\* The callback of readStylesFromStyleSheet for one rule.
ReadRule(C, node, rule) ==
    IF rule.hasMedia
    THEN IF "screen" \in {rule.media[k] : k \in 1..Len(rule.media)}
         THEN ForEachNestedRule(C, node, rule.cssRules)
         ELSE C
    ELSE setPropertiesFromRule(C, node, rule)

ForEachRule(C, node, rules) ==
    IF rules = <<>> \/ C.raised # "none" THEN C
    ELSE ForEachRule(ReadRule(C, node, Head(rules)), node, Tail(rules))

\* forEach.call(sheet.cssRules, rule => ...)
readStylesFromStyleSheet(C, node, sheet) == ForEachRule(C, node, sheet)

RECURSIVE ForEachSheet(_, _, _)

\* forEach.call(node.ownerDocument.styleSheets, readStylesFromStyleSheet)
ForEachSheet(C, node, sheets) ==
    IF sheets = <<>> \/ C.raised # "none" THEN C
    ELSE ForEachSheet(readStylesFromStyleSheet(C, node, Head(sheets)), node, Tail(sheets))

NewDeclaration == [cs |-> [p \in Properties |-> Unset], raised |-> "none"]

\* The body of getComputedStyle: default sheet, document sheets, inline style.
ComputedStyleInlineFirst(node, sheets) ==
    LET inline == [NewDeclaration EXCEPT !.cs = SetProperties(@, node.style)]
        def == readStylesFromStyleSheet(inline, node, sheets.default)
    IN  ForEachSheet(def, node, sheets.document)

ComputedStyle(node, sheets) ==
    LET def == readStylesFromStyleSheet(NewDeclaration, node, sheets.default)
        doc == ForEachSheet(def, node, sheets.document)
    IN  IF doc.raised # "none" THEN doc
        ELSE [doc EXCEPT !.cs = SetProperties(@, node.style)]

\* window.getComputedStyle(node)
getComputedStyle(node) ==
    /\ LET C == ComputedStyle(node, styleSheets) IN
       /\ computed' = C.cs
       /\ raised' = C.raised
    /\ lastOp' = [op |-> "getComputedStyle", node |-> node]
    /\ NoEffects
    /\ UNCHANGED <<styleSheets, xhrVars, consoleVars, windowVars, timerVars>>

\* Declarations, rules and sheets the style sheets are drawn from.
Declaration(property, value, priority) ==
    [property |-> property, value |-> value, priority |-> priority]

Red == Declaration("color", "red", "")

GreenImportant == Declaration("color", "green", "important")

Wide == Declaration("width", "9px", "")

Blue == Declaration("color", "blue", "")

NarrowImportant == Declaration("width", "1px", "important")

\* A style rule; a rule without selectorText (@font-face) has the text <<>>.
StyleRule(selectorText, style) ==
    [selectorText |-> selectorText, style |-> style, hasMedia |-> FALSE,
     media |-> <<>>, cssRules |-> <<>>]

\* An @media rule.
MediaRule(media, cssRules) ==
    [selectorText |-> <<>>, style |-> <<>>, hasMedia |-> TRUE,
     media |-> media, cssRules |-> cssRules]

Rules ==
    { StyleRule(<<"d">>, <<Red>>),
      StyleRule(<<"p">>, <<GreenImportant>>),
      StyleRule(<<"d", ",", "p">>, <<Red>>),
      StyleRule(<<"!", ",", "d">>, <<GreenImportant, Wide>>),
      StyleRule(<<"p", ",", "!">>, <<Red>>),
      StyleRule(<<"d", "'", ",", "'">>, <<GreenImportant>>),
      StyleRule(<<"p", ",", ",", "d">>, <<Wide>>),
      StyleRule(<<>>, <<Red>>),
      MediaRule(<<"screen">>, <<StyleRule(<<"d">>, <<GreenImportant>>),
                                StyleRule(<<"p">>, <<Red>>)>>),
      MediaRule(<<"print">>, <<StyleRule(<<"d">>, <<Wide>>)>>) }

Sheets ==
    {<<r>> : r \in Rules}
    \cup { <<StyleRule(<<"d">>, <<Red>>), StyleRule(<<"d", "'", ",", "'">>, <<GreenImportant>>)>>,
           <<StyleRule(<<"!", ",", "d">>, <<GreenImportant, Wide>>), StyleRule(<<"d">>, <<Red>>)>> }

\* The parsed default style sheet.
DefaultSheets ==
    { <<>>,
      <<StyleRule(<<"d">>, <<GreenImportant, Wide>>)>>,
      <<StyleRule(<<"d", ",", "p">>, <<Red>>)>> }

\* node.ownerDocument.styleSheets: up to two sheets in document order.
DocumentSheets ==
    {<<>>} \cup {<<a>> : a \in Sheets} \cup {<<a, b>> : a \in Sheets, b \in Sheets}

\* Elements: tag, title attribute and inline style.
Nodes ==
    [tag : {"d", "p"}, title : {",", "x"},
     style : {<<>>, <<Blue>>, <<Blue, NarrowImportant>>}]

----------------------------------------------------------------------------
(* Specifications *)

ConsoleInit ==
    /\ listeners = VirtualConsoleConstructor
    /\ attachments = <<>>
    /\ calls = <<>>

NoTimers ==
    /\ timers = [w \in Windows |-> <<>>]
    /\ host = [h \in Handles |-> UnusedHandle]

\* const xhr = new XMLHttpRequest(); let lastUrl = "";
NoRequestOpened ==
    /\ lastUrl = [x \in Requests |-> <<>>]
    /\ underlyingOpen = [x \in Requests |-> <<>>]
    /\ lastOpen = [x \in Requests |-> [called |-> FALSE, url |-> <<>>, base |-> <<>>]]
    /\ xhrReadyState = [x \in Requests |-> "UNSENT"]
    /\ sendFlag = [x \in Requests |-> FALSE]
    /\ disableHeaderCheck = [x \in Requests |-> FALSE]
    /\ observers = [x \in Requests |-> 0]
    /\ jar = [scope \in CookieScopes |-> <<>>]

NoStyleComputed ==
    /\ styleSheets = [default |-> <<>>, document |-> <<>>]
    /\ computed = NewDeclaration.cs

NoEffectsYet ==
    /\ NoRequestOpened
    /\ NoStyleComputed
    /\ cancelled = <<>>
    /\ tornDown = <<>>
    /\ docClosed = <<>>
    /\ loadDispatched = <<>>
    /\ raised = "none"

\* No window constructed yet.
NoWindows ==
    /\ constructed = [w \in Windows |-> "none"]
    /\ virtualConsole = [w \in Windows |-> ""]
    /\ document = [w \in Windows |-> FALSE]
    /\ docLoadListener = [w \in Windows |-> FALSE]
    /\ events = [w \in Windows |-> FALSE]
    /\ tickPending = [w \in Windows |-> FALSE]
    /\ frames = [w \in Windows |-> <<>>]

\* The windows of ws constructed with default options and loaded (their
\* deferred task has dispatched load), with child frames as in tree.
OpenWindows(ws, tree) ==
    /\ constructed = [w \in Windows |-> IF w \in ws THEN "ok" ELSE "none"]
    /\ virtualConsole = [w \in Windows |-> IF w \in ws THEN "new VirtualConsole" ELSE ""]
    /\ document = [w \in Windows |-> w \in ws]
    /\ docLoadListener = [w \in Windows |-> FALSE]
    /\ events = [w \in Windows |-> FALSE]
    /\ tickPending = [w \in Windows |-> FALSE]
    /\ frames = tree

\* ---- the virtual console
InitConsole ==
    /\ ConsoleInit /\ NoWindows /\ NoTimers /\ NoEffectsYet
    /\ lastOp = [op |-> "init", event |-> "", args |-> <<>>]

NextConsole ==
    \/ \E s \in Sinks, o \in OptionForms : sendTo(s, o)
    \/ \E ev \in Events, a \in ArgLists : Emit(ev, a)
    \/ \E m \in ConsoleMethods, a \in ArgLists : wrapConsoleMethod(m, a)

SpecConsole == InitConsole /\ [][NextConsole]_vars

\* ---- the timers of two independent top-level windows
TimerWindows == {"w1", "w2"}

InitTimers ==
    /\ ConsoleInit /\ NoTimers /\ NoEffectsYet
    /\ OpenWindows(TimerWindows, [w \in Windows |-> <<>>])
    /\ lastOp = [op |-> "init"]

NextTimers ==
    \/ \E w \in Windows : setTimeout(w)
    \/ \E w \in Windows : setInterval(w)
    \/ \E w \in Windows, id \in 0..MaxHandles : stopTimer(w, id)
    \/ \E w \in Windows : stopAllTimers(w)
    \/ \E h \in Handles : Fire(h)

SpecTimers == InitTimers /\ [][NextTimers]_vars

\* ---- close() on frame trees with timers
\* w1 > w2 > w3 nested; w1 with the two frames w2, w3; w1 with the frame w2
\* beside the top-level window w3.
FrameTrees ==
    { [w \in Windows |-> CASE w = "w1" -> <<"w2">> [] w = "w2" -> <<"w3">> [] OTHER -> <<>>],
      [w \in Windows |-> CASE w = "w1" -> <<"w2", "w3">> [] OTHER -> <<>>],
      [w \in Windows |-> CASE w = "w1" -> <<"w2">> [] OTHER -> <<>>] }

InitClose ==
    /\ ConsoleInit /\ NoTimers /\ NoEffectsYet
    /\ \E tree \in FrameTrees : OpenWindows(Windows, tree)
    /\ lastOp = [op |-> "init"]

IssuedHandles == {h \in Handles : host[h].status # "unused"}

NextClose ==
    \/ \E w \in Windows : Cardinality(IssuedHandles) < MaxCloseTimers /\ setTimeout(w)
    \/ \E w \in Windows : Cardinality(IssuedHandles) < MaxCloseTimers /\ setInterval(w)
    \/ \E w \in Windows, id \in 0..MaxHandles : stopTimer(w, id)
    \/ \E h \in Handles : Fire(h)
    \/ \E w \in Windows : Close(w)

SpecClose == InitClose /\ [][NextClose]_vars

\* ---- construction, the deferred load task and close()
InitWindow ==
    /\ ConsoleInit /\ NoWindows /\ NoTimers /\ NoEffectsYet
    /\ lastOp = [op |-> "init"]

ConstructedWindows == {w \in Windows : constructed[w] = "ok"}

NextWindow ==
    \/ \E w \in Windows, v \in VirtualConsoleOptions :
          Cardinality(ConstructedWindows) < MaxWindows /\ Construct(w, v)
    \/ \E p, w \in Windows :
          Cardinality(ConstructedWindows) < MaxWindows /\ FrameWindow(p, w)
    \/ \E w \in Windows : AddEventListener(w)
    \/ \E w \in Windows, rs \in ReadyStates : Tick(w, rs)
    \/ \E w \in Windows : DocumentLoad(w)
    \/ \E w \in Windows : Close(w)

SpecWindow == InitWindow /\ [][NextWindow]_vars

\* ---- the requests of one open window
InitXhr ==
    /\ ConsoleInit /\ NoTimers /\ NoEffectsYet
    /\ OpenWindows({"w1"}, [w \in Windows |-> <<>>])
    /\ lastOp = [op |-> "init"]

NextXhr ==
    \/ \E x \in Requests, m \in OpenMethods, u \in OpenUrls, b \in DocumentUrls :
          open(x, m, u, b)

SpecXhr == InitXhr /\ [][NextXhr]_vars

InitSend == InitXhr

NextSend ==
    \/ \E x \in Requests, url \in SendUrls : open(x, "GET", url, SendDocumentUrl)
    \/ \E x \in Requests : observers[x] < MaxObservers /\ send(x)
    \/ \E x \in Requests, h \in SetCookieHeaders : HeadersReceived(x, h)
    \/ \E x \in Requests : Finish(x)
    \/ \E x \in Requests : abort(x)
    \/ \E x \in Requests : ScriptSetRequestHeader(x)
    \/ \E x \in Requests : getAllResponseHeaders(x)

SpecSend == InitSend /\ [][NextSend]_vars

InitStyle ==
    /\ ConsoleInit /\ NoTimers /\ NoRequestOpened
    /\ OpenWindows({"w1"}, [w \in Windows |-> <<>>])
    /\ cancelled = <<>> /\ tornDown = <<>> /\ docClosed = <<>> /\ loadDispatched = <<>>
    /\ raised = "none"
    /\ \E def \in DefaultSheets, doc \in DocumentSheets :
          styleSheets = [default |-> def, document |-> doc]
    /\ computed = NewDeclaration.cs
    /\ lastOp = [op |-> "init"]

NextStyle == \E node \in Nodes : getComputedStyle(node)

SpecStyle == InitStyle /\ [][NextStyle]_vars

----------------------------------------------------------------------------
(* Properties of the VirtualConsole, checked under SpecConsole *)

IsEmit == lastOp.op \in {"emit", "console"}

AttachmentIds == 1..Len(attachments)

\* The calls of the last emit made through attachment i to method m.
CallsOf(i, m) == SelectSeq(calls, LAMBDA c : c.att = i /\ c.method = m)

\* The attachments, in attachment order, whose sink has m as a function.
RECURSIVE SinksWith(_, _)
SinksWith(m, i) ==
    IF i > Len(attachments) THEN <<>>
    ELSE (IF IsFunction(attachments[i].sink, m) THEN <<i>> ELSE <<>>)
         \o SinksWith(m, i + 1)

\* C1: every emit of event m with arguments A that returns calls the
\* same-named method of every attached sink that has it exactly once, in
\* attachment order, with exactly the arguments A.
C1_ForwardsEmittedArguments ==
    (IsEmit /\ raised = "none") =>
        LET m == lastOp.event
            to == SinksWith(m, 1)
            got == SelectSeq(calls, LAMBDA c : c.method = m)
        IN  got = [k \in 1..Len(to) |->
                      [att |-> to[k], sink |-> attachments[to[k]].sink,
                       method |-> m, args |-> lastOp.args]]

\* C2: emitting any event, "error" included, on a router without attached
\* sinks never raises.
C2_EmitWithoutSinksNeverRaises ==
    (IsEmit /\ attachments = <<>>) => raised = "none"

C2_Witness ==
    /\ lastOp.op = "emit" /\ lastOp.event = "error"
    /\ attachments = <<>>
    /\ raised = "none"

Omits(i) == attachments[i].opts = "{omitJsdomErrors:true}"

\* C3 as stated: an emitted jsdomError goes to sink.error(stack, detail)
\* of every attachment made without omitJsdomErrors INSTEAD OF to the sink's
\* jsdomError method, and to no sink.error of an attachment made with it.
C3_ErrorInsteadOfJsdomErrorMethod ==
    (IsEmit /\ lastOp.event = "jsdomError" /\ raised = "none") =>
        \A i \in AttachmentIds :
            IF Omits(i)
            THEN CallsOf(i, "error") = <<>>
            ELSE /\ Len(CallsOf(i, "error")) = 1
                 /\ CallsOf(i, "error")[1].args =
                        <<Stack(lastOp.args[1]), Detail(lastOp.args[1])>>
                 /\ CallsOf(i, "jsdomError") = <<>>

\* Emitting jsdomError raises exactly when a forwarder is registered and
\* the event carries no failure object, or a forwarder's sink has no error().
JsdomErrorRaises ==
    \E i \in AttachmentIds :
        /\ ~Omits(i)
        /\ \/ lastOp.args = <<>>
           \/ ~IsFunction(attachments[i].sink, "error")

\* C3 (amended): an emitted jsdomError that is delivered without a listener
\* raising goes to sink.error(e.stack, e.detail) exactly once for every
\* attachment made without omitJsdomErrors, IN ADDITION TO one call of the
\* sink's own jsdomError method when the sink has one; an attachment made
\* with omitJsdomErrors gets no sink.error call.
C3_ErrorBesidesJsdomErrorMethod ==
    (IsEmit /\ lastOp.event = "jsdomError") =>
        /\ (raised # "none") <=> JsdomErrorRaises
        /\ raised = "none" =>
             \A i \in AttachmentIds :
                /\ Len(CallsOf(i, "jsdomError")) =
                      (IF IsFunction(attachments[i].sink, "jsdomError") THEN 1 ELSE 0)
                /\ IF Omits(i)
                   THEN CallsOf(i, "error") = <<>>
                   ELSE /\ Len(CallsOf(i, "error")) = 1
                        /\ CallsOf(i, "error")[1].args =
                               <<Stack(lastOp.args[1]), Detail(lastOp.args[1])>>

C3_Witness ==
    /\ IsEmit /\ lastOp.event = "jsdomError" /\ raised = "none"
    /\ \E i, j \in AttachmentIds :
          /\ ~Omits(i) /\ attachments[i].sink = "reporter"
          /\ Len(CallsOf(i, "error")) = 1 /\ Len(CallsOf(i, "jsdomError")) = 1
          /\ Omits(j) /\ IsFunction(attachments[j].sink, "error")

----------------------------------------------------------------------------
(* Properties of the timer registry, checked under SpecTimers *)

Range(seq) == {seq[k] : k \in 1..Len(seq)}

HandlesOf(reg) == {reg[k].handle : k \in 1..Len(reg)}

\* C4: after stopAllTimers(w) the registry of w is empty, every stored
\* cancel function was invoked on its handle in registration order (handles
\* are issued in increasing order), no timer w scheduled before is still
\* pending, a handle covered by a stopAllTimers never fires afterwards, and
\* stopAllTimers on an empty registry invokes nothing.
C4_StopAllTimersCancelsEverything ==
    /\ lastOp.op = "stopAllTimers" =>
          LET w == lastOp.w
              reg == lastOp.before[w]
          IN  /\ timers[w] = <<>>
              /\ Len(cancelled) = Len(reg)
              /\ \A k \in 1..Len(reg) :
                    cancelled[k] = [w |-> w, stopFn |-> reg[k].stopFn,
                                    handle |-> reg[k].handle]
              /\ \A k, l \in 1..Len(cancelled) :
                    k < l => cancelled[k].handle < cancelled[l].handle
              /\ \A h \in Handles : host[h].owner = w => ~Pending(host, h)
              /\ reg = <<>> => cancelled = <<>>
              /\ \A v \in Windows \ {w} : timers[v] = lastOp.before[v]
              /\ raised = "none"
    /\ \A h \in Handles : host[h].stopped => ~Pending(host, h)
    /\ lastOp.op = "fire" => ~host[lastOp.id].stopped

C4_Witness ==
    /\ lastOp.op = "stopAllTimers"
    /\ Len(cancelled) >= 2
    /\ \E k, l \in 1..Len(cancelled) : cancelled[k].stopFn # cancelled[l].stopFn
    /\ \E h \in Handles : host[h].owner = lastOp.w /\ host[h].status = "fired"
    /\ \E h \in Handles : host[h].owner # lastOp.w /\ Pending(host, h)

\* C5: stopTimer(id) (clearTimeout, clearInterval) with a record of that handle in the
\* registry invokes that record's cancel function on it and removes exactly
\* that record, the others keeping their order; with no such record, or id
\* undefined, it invokes nothing, changes no registry and raises nothing.
C5_StopTimerRemovesExactlyTheMatch ==
    lastOp.op = "stopTimer" =>
        LET w == lastOp.w
            id == lastOp.id
            reg == lastOp.before[w]
        IN  /\ raised = "none"
            /\ \A v \in Windows \ {w} : timers[v] = lastOp.before[v]
            /\ IF id # 0 /\ id \in HandlesOf(reg)
               THEN /\ timers[w] = SelectSeq(reg, LAMBDA t : t.handle # id)
                    /\ Len(timers[w]) = Len(reg) - 1
                    /\ Len(cancelled) = 1
                    /\ cancelled[1].handle = id
                    /\ [handle |-> id, stopFn |-> cancelled[1].stopFn] \in Range(reg)
                    /\ ~Pending(host, id)
               ELSE /\ timers[w] = reg
                    /\ cancelled = <<>>

\* A matching record between two others is removed.
C5_Witness ==
    /\ lastOp.op = "stopTimer"
    /\ Len(lastOp.before[lastOp.w]) = 3
    /\ lastOp.before[lastOp.w][2].handle = lastOp.id
    /\ Len(timers[lastOp.w]) = 2

\* C16: every record of a window's timer registry is one still-pending
\* timer: a one-shot timer that has fired and a cancelled timer are no
\* longer in the registry, and no handle is recorded twice.
C16_RegistryHoldsOnlyPendingTimers ==
    \A w \in Windows :
        /\ \A k \in 1..Len(timers[w]) : Pending(host, timers[w][k].handle)
        /\ \A k, l \in 1..Len(timers[w]) :
              timers[w][k].handle = timers[w][l].handle => k = l

----------------------------------------------------------------------------
(* Properties of close(), checked under SpecClose *)

RECURSIVE Descendants(_)
Descendants(w) ==
    UNION {{frames[w][k]} \cup Descendants(frames[w][k]) : k \in 1..Len(frames[w])}

\* C6: close() on a window tears down every descendant frame window before
\* its parent and the closed window last, and when it returns every window
\* of the tree has no document, an empty registry and no pending timer.
C6_CloseTearsDownChildrenFirst ==
    lastOp.op = "close" =>
        LET w == lastOp.w
            tree == {w} \cup Descendants(w)
        IN  /\ raised = "none"
            /\ tornDown # <<>>
            /\ tornDown[Len(tornDown)] = w
            /\ Range(tornDown) = tree
            /\ \A j \in 1..Len(tornDown) :
                  \A d \in Descendants(tornDown[j]) :
                      \E i \in 1..(j - 1) : tornDown[i] = d
            /\ \A x \in tree :
                  /\ ~document[x]
                  /\ timers[x] = <<>>
                  /\ \A h \in Handles : host[h].owner = x => ~Pending(host, h)

C6_Witness ==
    /\ lastOp.op = "close" /\ lastOp.w = "w1"
    /\ frames["w1"] = <<"w2">> /\ frames["w2"] = <<"w3">>
    /\ lastOp.hadDocument
    /\ \E k \in 1..Len(cancelled) :
          cancelled[k].w = "w3" /\ host[cancelled[k].handle].status = "cleared"
    /\ \A x \in Windows : ~document[x]

\* C7: close() on a window that is already closed raises nothing, skips the
\* document steps, and leaves the document absent and the registry empty.
C7_SecondCloseDoesNotThrow ==
    (lastOp.op = "close" /\ ~lastOp.hadDocument) =>
        /\ raised = "none"
        /\ lastOp.w \notin Range(docClosed)
        /\ ~document[lastOp.w]
        /\ timers[lastOp.w] = <<>>

\* The second close of a window with frames, on which timers were
\* scheduled after the first close.
C7_Witness ==
    /\ lastOp.op = "close" /\ ~lastOp.hadDocument
    /\ frames[lastOp.w] # <<>>
    /\ lastOp.before[lastOp.w] # <<>>
    /\ cancelled # <<>>
    /\ raised = "none"

\* The number of times window x was torn down by the last close().
TeardownsOf(x) == Cardinality({k \in 1..Len(tornDown) : tornDown[k] = x})

\* C17: one close() call tears down every window of the frame tree exactly
\* once.
C17_EveryWindowTornDownOnce ==
    lastOp.op = "close" =>
        \A x \in {lastOp.w} \cup Descendants(lastOp.w) : TeardownsOf(x) = 1

----------------------------------------------------------------------------
(* Properties of construction and the deferred task, checked under SpecWindow *)

\* C8 as stated: every supplied virtualConsole value that is no
\* VirtualConsole instance makes the constructor throw a TypeError and leaves
\* no window; a supplied instance becomes the window's router.
C8_RejectsEveryNonRouter ==
    (lastOp.op = "construct" /\ lastOp.option # "absent") =>
        IF InstanceOfVirtualConsole(lastOp.option)
        THEN raised = "none" /\ virtualConsole[lastOp.w] = lastOp.option
        ELSE raised = "TypeError" /\ constructed[lastOp.w] = "none"

\* C8 (amended): every supplied TRUTHY virtualConsole value that is no
\* VirtualConsole instance makes the constructor throw a TypeError: no
\* window results and no deferred task is scheduled; a supplied instance
\* becomes the window's router; a falsy value (null, "", 0, false, undefined)
\* is treated as not supplied and the window gets a new VirtualConsole.
C8_RejectsTruthyNonRouter ==
    lastOp.op = "construct" =>
        LET w == lastOp.w
            v == lastOp.option
        IN  /\ (Truthy(v) /\ ~InstanceOfVirtualConsole(v)) =>
                  /\ raised = "TypeError"
                  /\ constructed[w] = "none"
                  /\ ~tickPending[w] /\ ~document[w]
            /\ InstanceOfVirtualConsole(v) =>
                  /\ raised = "none"
                  /\ constructed[w] = "ok"
                  /\ virtualConsole[w] = v
            /\ ~Truthy(v) =>
                  /\ raised = "none"
                  /\ constructed[w] = "ok"
                  /\ virtualConsole[w] = "new VirtualConsole"

C8_Witness ==
    /\ lastOp.op = "construct" /\ lastOp.option = "nodeConsole"
    /\ raised = "TypeError"
    /\ constructed[lastOp.w] = "none"
    /\ \E x \in Windows : constructed[x] = "ok" /\ virtualConsole[x] = "vc1"

\* C9: the deferred task of a window closed before it runs dispatches no
\* load event and registers no load listener; on a window still open it
\* dispatches load on the window at once when the document is complete and
\* otherwise registers the listener that re-dispatches the document's load.
C9_DeferredTaskSkipsClosedWindow ==
    /\ lastOp.op = "tick" =>
          LET w == lastOp.w IN
          /\ ~lastOp.hadDocument =>
                loadDispatched = <<>> /\ ~docLoadListener[w]
          /\ (lastOp.hadDocument /\ lastOp.readyState = "complete") =>
                loadDispatched = <<w>> /\ ~docLoadListener[w]
          /\ (lastOp.hadDocument /\ lastOp.readyState = "loading") =>
                loadDispatched = <<>> /\ docLoadListener[w]
    /\ lastOp.op = "documentLoad" =>
          (loadDispatched = <<lastOp.w>>) = docLoadListener[lastOp.w]
    /\ \A w \in Windows : docLoadListener[w] => document[w] /\ ~tickPending[w]

C9_Witness ==
    /\ lastOp.op = "tick" /\ ~lastOp.hadDocument
    /\ lastOp.readyState = "complete"
    /\ constructed[lastOp.w] = "ok"
    /\ \E p \in Windows : lastOp.w \in Range(frames[p])
    /\ loadDispatched = <<>>

\* C18 as stated: close() of a window with an attached document runs the
\* document's close routine before the document reference is dropped, and
\* the load event this routine raises still reaches the document's listeners:
\* the listener registered by the deferred task re-dispatches it on the window.
C18_LoadReachesListenersBeforeClear ==
    (lastOp.op = "close" /\ lastOp.hadDocument) =>
        /\ raised = "none"
        /\ lastOp.w \in Range(docClosed)
        /\ ~document[lastOp.w]
        /\ lastOp.hadLoadListener => lastOp.w \in Range(loadDispatched)

\* C18 amended: the close routine runs before the document reference is
\* dropped, and the listener table is cleared before the routine runs, so the
\* load event it raises reaches no document listener and nothing is
\* dispatched on the window.
C18_ListenersClearedBeforeDocumentClose ==
    (lastOp.op = "close" /\ lastOp.hadDocument) =>
        /\ raised = "none"
        /\ lastOp.w \in Range(docClosed)
        /\ ~document[lastOp.w]
        /\ ~docLoadListener[lastOp.w]
        /\ lastOp.w \notin Range(loadDispatched)

C18_Witness ==
    /\ lastOp.op = "close" /\ lastOp.hadDocument /\ lastOp.hadLoadListener
    /\ docClosed = <<lastOp.w>>
    /\ loadDispatched = <<>>
    /\ ~document[lastOp.w]

----------------------------------------------------------------------------
(* Properties of the XMLHttpRequest wrapper, checked under SpecXhr *)

FileDriveUrl == FileSlashes \o <<"C", ":", "/", "t">>

FixedFileDriveUrl == <<"f", "i", "l", "e", ":", "/", "/", "C", ":", "/", "t">>

\* C10: after any sequence of open() calls the remembered URL of a request
\* is the url of its most recent open() resolved against the document's URL,
\* with a leading file:///<drive letter>: rewritten to file://<drive letter>:,
\* and the underlying open received that same URL; file:///C:/t reaches it
\* as file://C:/t.
C10_RemembersLastOpenedUrl ==
    \A x \in Requests :
        lastOpen[x].called =>
            LET r == resolveHref(lastOpen[x].base, lastOpen[x].url)
                drive == /\ Len(r) >= 10
                         /\ \A k \in 1..8 : r[k] = FileSlashes[k]
                         /\ r[9] \in Letters
                         /\ r[10] = ":"
            IN  /\ underlyingOpen[x] = lastUrl[x]
                /\ IF drive
                   THEN /\ Len(lastUrl[x]) = Len(r) - 1
                        /\ \A k \in 1..7 : lastUrl[x][k] = r[k]
                        /\ \A k \in 8..Len(lastUrl[x]) : lastUrl[x][k] = r[k + 1]
                   ELSE lastUrl[x] = r
                /\ lastOpen[x].url = FileDriveUrl => underlyingOpen[x] = FixedFileDriveUrl

\* A second open() on a request, its url a relative reference resolved
\* against a file:///c:/ document, while the other request remembers the
\* rewritten file:///C:/t.
C10_Witness ==
    /\ lastOp.op = "open"
    /\ lastOpen["x1"].url = <<"t">>
    /\ lastUrl["x1"] = <<"f", "i", "l", "e", ":", "/", "/", "c", ":", "/", "d", "/", "t">>
    /\ lastOpen["x2"].url = FileDriveUrl
    /\ underlyingOpen["x2"] = FixedFileDriveUrl

----------------------------------------------------------------------------
(* Properties of send() and the cookie jar, checked under SpecSend *)

OneCookie(c) == [kind |-> "string", value |-> c, values |-> <<>>]

\* The cookies a response header hands to the jar.
ReceivedCookies(h) == IF HeaderPresent(h) THEN NormaliseHeader(h) ELSE <<>>

\* C11: once response headers carrying set-cookie: a=1 have arrived for a
\* URL, the jar holds a=1 for it, and every send() of an opened, not yet
\* sent request hands the underlying send the request header cookie equal to
\* the jar's cookie string for the request's URL: a=1 while nothing else was
\* stored.
C11_LaterSendCarriesStoredCookie ==
    /\ (lastOp.op = "headersReceived" /\ lastOp.header = OneCookie("a=1")) =>
          "a=1" \in Range(getCookieStringSync(jar, lastUrl[lastOp.x]))
    /\ (lastOp.op = "send" /\ lastOp.opened) =>
          /\ raised = "none"
          /\ lastOp.sent
          /\ lastOp.headers["cookie"] = getCookieStringSync(jar, lastUrl[lastOp.x])
          /\ (lastUrl[lastOp.x] = HttpUrl /\ jar[CookieScope(HttpUrl)] = <<"a=1">>) =>
                lastOp.headers["cookie"] = <<"a=1">>

C11_Witness ==
    /\ lastOp.op = "send" /\ lastOp.opened /\ lastOp.sent
    /\ lastUrl[lastOp.x] = HttpUrl
    /\ jar[CookieScope(HttpUrl)] = <<"a=1">>
    /\ lastOp.headers["cookie"] = <<"a=1">>

\* The scheme of a URL: the letters before its first colon.
SchemeOf(url) ==
    IF HasScheme(url)
    THEN SubSeq(url, 1, (CHOOSE i \in 1..Len(url) :
                            url[i] = ":" /\ \A j \in 1..(i - 1) : url[j] # ":") - 1)
    ELSE <<>>

\* C12: getAllResponseHeaders() returns null exactly when the remembered URL
\* has the scheme file, and in every other state, before any open() too, the
\* result of the underlying implementation.
C12_NullHeadersExactlyForFileUrls ==
    lastOp.op = "getAllResponseHeaders" =>
        LET x == lastOp.x
            file == SchemeOf(lastUrl[x]) = <<"f", "i", "l", "e">>
        IN  /\ (lastOp.result = "null") <=> file
            /\ ~file => lastOp.result = UnderlyingAllResponseHeaders(xhrReadyState[x])

C12_Witness ==
    /\ lastOp.op = "getAllResponseHeaders"
    /\ lastOp.result = "null"
    /\ lastOpen[lastOp.x].called
    /\ xhrReadyState[lastOp.x] = "DONE"
    /\ \E y \in Requests : ~lastOpen[y].called

\* C15 as stated: after a headers-received notification every well-formed
\* set-cookie value of that response and every cookie stored by an earlier
\* response is in the jar.
C15_EveryReceivedCookieStaysInJar ==
    lastOp.op = "headersReceived" =>
        /\ \A c \in Range(ReceivedCookies(lastOp.header)) \cap CookieStrings :
              c \in Range(jar[CookieScope(lastUrl[lastOp.x])])
        /\ \A s \in CookieScopes :
              \A c \in Range(lastOp.before[s]) : c \in Range(jar[s])

\* C15 amended: a headers-received notification stores every well-formed
\* set-cookie value of its response, and a cookie stored before is missing
\* afterwards only when the response set a cookie of the same name for the
\* same scope; the cookies of other names and other scopes stay.
C15_CookieLostOnlyByOverwrite ==
    lastOp.op = "headersReceived" =>
        LET scope == CookieScope(lastUrl[lastOp.x])
            received == ReceivedCookies(lastOp.header)
            stored(k) == /\ received[k] \in CookieStrings
                         /\ ~\E l \in (k + 1)..Len(received) :
                               /\ received[l] \in CookieStrings
                               /\ CookieName(received[l]) = CookieName(received[k])
        IN  /\ \A k \in 1..Len(received) :
                  stored(k) => received[k] \in Range(jar[scope])
            /\ \A s \in CookieScopes :
                  \A c \in Range(lastOp.before[s]) :
                      \/ c \in Range(jar[s])
                      \/ /\ s = scope
                         /\ \E k \in 1..Len(received) :
                               /\ stored(k)
                               /\ CookieName(received[k]) = CookieName(c)
            /\ \A s \in CookieScopes :
                  \A c \in Range(jar[s]) :
                      \/ c \in Range(lastOp.before[s])
                      \/ s = scope /\ c \in Range(received)

C15_Witness ==
    /\ lastOp.op = "headersReceived" /\ lastOp.x = "x2"
    /\ lastOp.header = [kind |-> "array", value |-> "", values |-> <<"b=1", "a=1">>]
    /\ lastUrl["x1"] = HttpUrl /\ lastUrl["x2"] = HttpUrl
    /\ xhrReadyState["x1"] = "HEADERS_RECEIVED" /\ sendFlag["x1"]
    /\ lastOp.before[CookieScope(HttpUrl)] = <<"a=2">>
    /\ jar[CookieScope(HttpUrl)] = <<"a=1", "b=1">>

\* C19: the cookie-write observer stores the set-cookie values of a response
\* once and only in the headers-received state, and it is the only observer
\* registered on the request when the response arrives; afterwards none is
\* registered.
C19_OneObserverPerResponse ==
    /\ lastOp.op = "headersReceived" =>
          /\ lastOp.observers = 1
          /\ lastOp.persisted = ReceivedCookies(lastOp.header)
          /\ observers[lastOp.x] = 0
    /\ lastOp.op \in {"finish", "abort"} => lastOp.persisted = <<>>

\* C20: header-name validation is switched off only inside send(): after
\* every operation, send() that returned or raised included, it is on, and
\* a script's setRequestHeader of a restricted name is refused.
C20_HeaderCheckOnOutsideSend ==
    /\ \A x \in Requests : ~disableHeaderCheck[x]
    /\ lastOp.op = "setRequestHeader" => ~lastOp.accepted

----------------------------------------------------------------------------
(* Properties of getComputedStyle, checked under SpecStyle *)

\* The comma at position k of t stands outside quotes.
TopLevelComma(t, k) ==
    /\ t[k] = ","
    /\ Cardinality({j \in 1..(k - 1) : t[j] = "'"}) % 2 = 0

\* The branches of a selector text: its maximal stretches without a comma
\* outside quotes.
Branches(t) ==
    { SubSeq(t, i, j) : <<i, j>> \in
        { ij \in (1..Len(t)) \X (1..Len(t)) :
            /\ ij[1] <= ij[2]
            /\ ij[1] = 1 \/ TopLevelComma(t, ij[1] - 1)
            /\ ij[2] = Len(t) \/ TopLevelComma(t, ij[2] + 1)
            /\ \A k \in ij[1]..ij[2] : ~TopLevelComma(t, k) } }

\* A rule applies to a node when one of its branches matches it.
RuleApplies(rule, node) ==
    \E b \in Branches(rule.selectorText) : matches(node, b) = "true"

BranchRaises(rule, node) ==
    \E b \in Branches(rule.selectorText) : matches(node, b) = "raise"

\* The declarations of the applying rules of one sheet, each with its place
\* <<stage, sheet, rule, nested rule, declaration>>.
DeclarationsOf(stage, n, sheet, node) ==
    UNION { { [pos |-> <<stage, n, i, 0, k>>, decl |-> sheet[i].style[k]] :
                k \in 1..Len(sheet[i].style) } :
            i \in {i \in 1..Len(sheet) :
                     ~sheet[i].hasMedia /\ RuleApplies(sheet[i], node)} }
    \cup
    UNION { UNION { { [pos |-> <<stage, n, i, m, k>>,
                       decl |-> sheet[i].cssRules[m].style[k]] :
                        k \in 1..Len(sheet[i].cssRules[m].style) } :
                    m \in {m \in 1..Len(sheet[i].cssRules) :
                             RuleApplies(sheet[i].cssRules[m], node)} } :
            i \in {i \in 1..Len(sheet) :
                     /\ sheet[i].hasMedia
                     /\ \E k \in 1..Len(sheet[i].media) : sheet[i].media[k] = "screen"} }

\* All declarations that apply to the node: default sheet (stage 0),
\* document sheets (stage 1), inline style (stage 2).
Applied(node) ==
    DeclarationsOf(0, 1, styleSheets.default, node)
    \cup UNION { DeclarationsOf(1, n, styleSheets.document[n], node) :
                 n \in 1..Len(styleSheets.document) }
    \cup { [pos |-> <<2, 0, 0, 0, k>>, decl |-> node.style[k]] :
           k \in 1..Len(node.style) }

Before(p, q) ==
    \E k \in 1..5 : p[k] < q[k] /\ \A j \in 1..(k - 1) : p[j] = q[j]

\* The value and priority of the last applying declaration of a property.
Winner(property, node) ==
    LET ds == {a \in Applied(node) : a.decl.property = property} IN
    IF ds = {} THEN Unset
    ELSE LET last == CHOOSE a \in ds : \A b \in ds : b = a \/ Before(b.pos, a.pos)
         IN  [value |-> last.decl.value, priority |-> last.decl.priority]

\* C13: getComputedStyle gives every property the value of the last
\* declaration applied in the order default sheet, document sheets in
\* document order, inline style: an inline declaration overrides every sheet
\* declaration of its property, a later matching rule an earlier one.
C13_LastAppliedDeclarationWins ==
    lastOp.op = "getComputedStyle" =>
        LET node == lastOp.node IN
        /\ \A property \in Properties : computed[property] = Winner(property, node)
        /\ \A k \in 1..Len(node.style) :
              (\A l \in (k + 1)..Len(node.style) :
                    node.style[l].property # node.style[k].property) =>
                 computed[node.style[k].property].value = node.style[k].value

C13_Witness ==
    /\ lastOp.op = "getComputedStyle"
    /\ lastOp.node.tag = "d" /\ lastOp.node.style = <<Blue>>
    /\ styleSheets.default = <<StyleRule(<<"d">>, <<GreenImportant, Wide>>)>>
    /\ styleSheets.document = << <<StyleRule(<<"d", ",", "p">>, <<Red>>)>> >>
    /\ computed["color"] = [value |-> "blue", priority |-> ""]
    /\ computed["width"] = [value |-> "9px", priority |-> ""]

\* Some rule read for the node has a branch on which the match raises.
SomeBranchRaises(node) ==
    \E sheet \in {styleSheets.default}
                 \cup {styleSheets.document[n] : n \in 1..Len(styleSheets.document)} :
        \E i \in 1..Len(sheet) : BranchRaises(sheet[i], node)

\* C14: a branch on which the match raises counts as not matching: the
\* call raises nothing, and the other branches of that rule, the later rules
\* and the inline style are applied as if the branch were not there.
C14_RaisingBranchIsNoMatch ==
    (lastOp.op = "getComputedStyle" /\ SomeBranchRaises(lastOp.node)) =>
        /\ raised = "none"
        /\ \A property \in Properties :
              computed[property] = Winner(property, lastOp.node)

C14_Witness ==
    /\ lastOp.op = "getComputedStyle"
    /\ lastOp.node.tag = "d" /\ lastOp.node.style = <<Blue, NarrowImportant>>
    /\ styleSheets.document =
          << <<StyleRule(<<"!", ",", "d">>, <<GreenImportant, Wide>>),
               StyleRule(<<"d">>, <<Red>>)>> >>
    /\ styleSheets.default = <<>>
    /\ raised = "none"
    /\ computed["color"] = [value |-> "blue", priority |-> ""]
    /\ computed["width"] = [value |-> "1px", priority |-> "important"]

====
